---- MODULE Spec2Model ----
(***************************************************************************)
(* Model of geohelpers.py and main.py: the chunker, the chunksize          *)
(* heuristic, the geokey encoder, the grid generator, the spatial locator, *)
(* save_data and the process_data pipeline.                                *)
(*                                                                         *)
(* Every function of the code is one action that is taken from the state   *)
(* in which nothing has been called yet; the action draws the arguments    *)
(* from bounded sets and records the arguments, the returned value or the  *)
(* raised exception, what was printed and what was written to disk.        *)
(***************************************************************************)
EXTENDS Integers, Sequences, FiniteSets, TLC

VARIABLES
    call,     \* the function that was called, "none" before the call
    args,     \* its arguments
    pc,       \* the statement a running function is at, "f.return" once f ended
    frame,    \* the local variable df of a running process_dataframe
    ret,      \* what the function returned or raised
    stdout,   \* what was printed
    dirs,     \* the directories that exist
    files     \* the files written, by path

vars == <<call, args, pc, frame, ret, stdout, dirs, files>>

(***************************************************************************)
(* Bounds of the model.                                                    *)
(***************************************************************************)
\* rows of the dataset handed to _chunker
MaxRows == 5
\* largest absolute chunksize tried
MaxChunk == 3
\* coordinates handed to generate_key are n/100000 degree, for the three
\* values of n that end at MaxCoord
MaxCoord == 7
\* the short axis of a grid has 0..MaxShort elements
MaxShort == 2
\* the long axis of a grid has up to SplitThreshold + MaxOver elements
MaxOver == 2
\* points handed to locate_points
MaxPoints == 3
\* entries of the columns argument of save_data
MaxMap == 2
\* rows of the dataset handed to process_dataframe
MaxFrame == 2

(***************************************************************************)
(* General helpers.                                                        *)
(***************************************************************************)
Abs(n) == IF n < 0 THEN 0 - n ELSE n

Max2(a, b) == IF a >= b THEN a ELSE b

Min2(a, b) == IF a <= b THEN a ELSE b

\* Python's // on integers: floor division, also for a negative divisor
FloorDiv(a, b) ==
    IF b > 0
    THEN IF a >= 0 THEN a \div b ELSE 0 - ((b - 1 - a) \div b)
    ELSE IF a <= 0 THEN (0 - a) \div (0 - b)
         ELSE 0 - ((a - b - 1) \div (0 - b))

RECURSIVE Pow10(_)
Pow10(d) == IF d = 0 THEN 1 ELSE 10 * Pow10(d - 1)

RECURSIVE Flatten(_)
\* pd.concat of a list of frames: the rows of each frame, in order
Flatten(dfs) == IF dfs = <<>> THEN <<>> ELSE Head(dfs) \o Flatten(Tail(dfs))

Range(s) == {s[i] : i \in 1..Len(s)}

Returned(v) == [kind |-> "return", value |-> v]

Raised(e) == [kind |-> "raise", exc |-> e]

\* a printed line without formatted values
Line(m) == [msg |-> m]

(***************************************************************************)
(* Python values that reach int(): None, int, float (in tenths), str and   *)
(* list.                                                                   *)
(***************************************************************************)
PyNone == [t |-> "NoneType"]

PyIntV(n) == [t |-> "int", v |-> n]

\* the float n/10
PyFloatV(n) == [t |-> "float", v10 |-> n]

\* a str, as its sequence of characters
PyStrV(s) == [t |-> "str", chars |-> s]

PyListV == [t |-> "list"]

Digits == <<"0", "1", "2", "3", "4", "5", "6", "7", "8", "9">>

DigitVal(c) == (CHOOSE i \in 1..10 : Digits[i] = c) - 1

IsDigit(c) == \E i \in 1..10 : Digits[i] = c

RECURSIVE ParseDigits(_, _)
ParseDigits(s, acc) ==
    IF s = <<>> THEN acc ELSE ParseDigits(Tail(s), 10 * acc + DigitVal(Head(s)))

\* int(v): the value, or the exception int() raises
PyInt(v) ==
    CASE v.t = "int" -> [ok |-> TRUE, v |-> v.v]
      [] v.t = "float" ->
           [ok |-> TRUE,
            v |-> IF v.v10 >= 0 THEN v.v10 \div 10 ELSE 0 - ((0 - v.v10) \div 10)]
      [] v.t = "str" ->
           IF v.chars # <<>> /\ \A i \in 1..Len(v.chars) : IsDigit(v.chars[i])
           THEN [ok |-> TRUE, v |-> ParseDigits(v.chars, 0)]
           ELSE [ok |-> FALSE, exc |-> "ValueError"]
      [] OTHER -> [ok |-> FALSE, exc |-> "TypeError"]

(***************************************************************************)
(* IEEE-754 binary64 arithmetic, as far as generate_key uses it.  A double *)
(* is its sign, its 53 significand bits (most significant first, the first *)
(* one set) and the exponent of the first bit; zero has no bits.           *)
(***************************************************************************)
MantBits == 53

FZero(neg) == [neg |-> neg, m |-> <<>>, e |-> 0]

FIsZero(f) == f.m = <<>>

\* == on doubles: the two zeros are equal
FEq(f, g) == IF FIsZero(f) \/ FIsZero(g) THEN FIsZero(f) /\ FIsZero(g) ELSE f = g

\* bits produced or consumed by one step of the long division and of the
\* multiplication; the intermediate values stay below 2^31
LimbBits == 13

RECURSIVE Pow2(_)
Pow2(k) ==
    IF k = 0 THEN 1
    ELSE IF k % 2 = 0 THEN LET h == Pow2(k \div 2) IN h * h
    ELSE 2 * Pow2(k - 1)

\* the number of binary digits of a natural below 2^30
BitLen(n) == CHOOSE w \in 0..30 : Pow2(w) > n /\ (w = 0 \/ Pow2(w - 1) <= n)

\* the w low binary digits of a natural, most significant first
IntBitsW(n, w) == [i \in 1..w |-> (n \div Pow2(w - i)) % 2]

\* binary digits of a natural, most significant first
IntBits(n) == IntBitsW(n, BitLen(n))

RECURSIVE BitsToInt(_)
BitsToInt(bits) ==
    IF bits = <<>> THEN 0
    ELSE IF Len(bits) = 1 THEN bits[1]
    ELSE LET h == Len(bits) \div 2
         IN  BitsToInt(SubSeq(bits, 1, h)) * Pow2(Len(bits) - h)
             + BitsToInt(SubSeq(bits, h + 1, Len(bits)))

RECURSIVE LongDiv(_, _, _)
\* n further binary digits of r/b (r < b), and the remainder left
LongDiv(r, b, n) ==
    IF n = 0 THEN [bits |-> <<>>, rem |-> r]
    ELSE LET k == Min2(n, LimbBits)
             t == r * Pow2(k)
             rest == LongDiv(t % b, b, n - k)
         IN  [bits |-> IntBitsW(t \div b, k) \o rest.bits, rem |-> rest.rem]

\* the number of zero digits of r/b (0 < r < b) before its first one
LeadingZeros(r, b) ==
    LET ratio == (b + r - 1) \div r
    IN  CHOOSE z \in 0..29 : Pow2(z + 1) >= ratio /\ (z = 0 \/ Pow2(z) < ratio)

\* bits + 1; the result is one bit longer when every bit was set
Increment(bits) ==
    IF \A i \in 1..Len(bits) : bits[i] = 1
    THEN <<1>> \o [i \in 1..Len(bits) |-> 0]
    ELSE LET p == CHOOSE i \in 1..Len(bits) :
                     bits[i] = 0 /\ \A j \in (i + 1)..Len(bits) : bits[j] = 1
         IN  [i \in 1..Len(bits) |-> IF i < p THEN bits[i] ELSE IF i = p THEN 1 ELSE 0]

\* round to nearest, ties to even: the kept bits, the first dropped bit and
\* whether any later dropped bit is set
RoundNearestEven(neg, bits, e, guard, sticky) ==
    IF guard = 1 /\ (sticky \/ bits[Len(bits)] = 1)
    THEN LET inc == Increment(bits)
         IN  IF Len(inc) > Len(bits)
             THEN [neg |-> neg, m |-> SubSeq(inc, 1, Len(bits)), e |-> e + 1]
             ELSE [neg |-> neg, m |-> inc, e |-> e]
    ELSE [neg |-> neg, m |-> bits, e |-> e]

\* the double nearest to a/b, for naturals a and b > 0
FromRatio(neg, a, b) ==
    LET q == a \div b
        r == a % b
        ib == IntBits(q)
    IN  IF a = 0 THEN FZero(neg)
        ELSE IF q > 0
        THEN LET d == LongDiv(r, b, MantBits - Len(ib))
                 g == IF 2 * d.rem >= b THEN 1 ELSE 0
                 s == (2 * d.rem - g * b) # 0
             IN  RoundNearestEven(neg, ib \o d.bits, Len(ib) - 1, g, s)
        ELSE LET z == LeadingZeros(r, b)
                 d == LongDiv(r * Pow2(z), b, MantBits)
                 g == IF 2 * d.rem >= b THEN 1 ELSE 0
                 s == (2 * d.rem - g * b) # 0
             IN  RoundNearestEven(neg, d.bits, 0 - (z + 1), g, s)

RECURSIVE MulBits(_, _, _)
\* the exact product of the significand by the natural c, most significant
\* bit first
MulBits(m, c, carry) ==
    IF m = <<>> THEN IntBits(carry)
    ELSE LET k == Min2(Len(m), LimbBits)
             t == BitsToInt(SubSeq(m, Len(m) - k + 1, Len(m))) * c + carry
         IN  MulBits(SubSeq(m, 1, Len(m) - k), c, t \div Pow2(k))
             \o IntBitsW(t % Pow2(k), k)

\* f * c in double arithmetic, c a natural that a double holds exactly
FMulNat(f, c) ==
    IF FIsZero(f) \/ c = 0 THEN FZero(f.neg)
    ELSE LET p == MulBits(f.m, c, 0)
             extra == Len(p) - MantBits
             kept == SubSeq(p, 1, MantBits)
             g == IF extra > 0 THEN p[MantBits + 1] ELSE 0
             s == \E i \in (MantBits + 2)..Len(p) : p[i] = 1
         IN  RoundNearestEven(f.neg, kept, f.e + extra, g, s)

\* the integer part of |f|
FIntPart(f) ==
    IF FIsZero(f) \/ f.e < 0 THEN 0 ELSE BitsToInt(SubSeq(f.m, 1, f.e + 1))

\* np.rint: the nearest integer, ties to even (as an integer, signed)
FRint(f) ==
    LET ip == FIntPart(f)
        g == IF FIsZero(f) \/ f.e < 0 - 1 THEN 0 ELSE f.m[f.e + 2]
        s == ~FIsZero(f) /\ f.e >= 0 - 1 /\ \E i \in (f.e + 3)..MantBits : f.m[i] = 1
        k == IF g = 1 /\ (s \/ ip % 2 = 1) THEN ip + 1 ELSE ip
    IN  IF f.neg THEN 0 - k ELSE k

\* astype(int): truncation towards zero
FTrunc(f) == IF f.neg THEN 0 - FIntPart(f) ELSE FIntPart(f)

\* numpy's round(x, decimals): rint(x * 10^decimals) / 10^decimals
np_round(x, decimals) ==
    LET k == FRint(FMulNat(x, Pow10(decimals)))
    IN  FromRatio(x.neg, Abs(k), Pow10(decimals))

(***************************************************************************)
(* _check_chunksize                                                        *)
(***************************************************************************)
ChunkDivisor == 50

MinDefaultChunk == 5000

MaxDefaultChunk == 60000

\* the adaptive default of line 11
DefaultChunksize(df_size) ==
    Min2(Max2(FloorDiv(df_size, ChunkDivisor), MinDefaultChunk), MaxDefaultChunk)

\* int(chunksize); only a TypeError is caught and replaced by the default
_check_chunksize(chunksize, df_size) ==
    LET r == PyInt(chunksize)
    IN  IF r.ok THEN Returned(r.v)
        ELSE IF r.exc = "TypeError" THEN Returned(DefaultChunksize(df_size))
        ELSE Raised(r.exc)

(***************************************************************************)
(* _chunker                                                                *)
(***************************************************************************)
RECURSIVE SortedSeq(_)
\* the elements of a set of integers in ascending order (groupby sorts the
\* group keys)
SortedSeq(S) ==
    IF S = {} THEN <<>>
    ELSE LET lo == CHOOSE x \in S : \A y \in S : x <= y
         IN  <<lo>> \o SortedSeq(S \ {lo})

\* a faulty group key: the position modulo the chunksize, which scatters
\* neighbouring rows over the groups
ChunkKey_mod(pos, chunksize) == pos % Abs(chunksize)

\* the group key of the row at 0-based position pos
ChunkKey(pos, chunksize) == FloorDiv(pos, chunksize)

RECURSIVE GroupRows(_, _, _, _)
\* the rows of one group, in the order of the frame
GroupRows(df, chunksize, key, i) ==
    IF i > Len(df) THEN <<>>
    ELSE (IF ChunkKey(i - 1, chunksize) = key THEN <<df[i]>> ELSE <<>>)
         \o GroupRows(df, chunksize, key, i + 1)

\* the list of partitions; chunksize is None or an int
_chunker(df, chunksize) ==
    IF chunksize.t = "NoneType" \/ chunksize.v = 0 THEN <<df>>
    ELSE LET keys == SortedSeq({ChunkKey(i - 1, chunksize.v) : i \in 1..Len(df)})
         IN  [j \in 1..Len(keys) |-> GroupRows(df, chunksize.v, keys[j], 1)]

(***************************************************************************)
(* cartesian_product, _generate_smaller_grid and generate_grid             *)
(***************************************************************************)
SplitThreshold == 1500

SplitSize == 100

\* a faulty product: the two columns exchanged
cartesian_product_swapped(lats, longs) ==
    [r \in 1..(Len(lats) * Len(longs)) |->
        [latitude |-> longs[((r - 1) \div Len(lats)) + 1],
         longitude |-> lats[((r - 1) % Len(lats)) + 1]]]

\* np.stack(np.meshgrid(lats, longs), axis=-1).reshape(-1, 2): meshgrid has
\* shape (len(longs), len(lats)), so row i * len(lats) + j holds
\* (lats[j], longs[i]); column 0 is named 'latitude', column 1 'longitude'
cartesian_product(lats, longs) ==
    [r \in 1..(Len(lats) * Len(longs)) |->
        [latitude |-> lats[((r - 1) % Len(lats)) + 1],
         longitude |-> longs[((r - 1) \div Len(lats)) + 1]]]

\* a faulty split: equal pieces, the remainder of the array dropped
array_split_short(arr, sections) ==
    [j \in 1..sections |->
        SubSeq(arr, (j - 1) * (Len(arr) \div sections) + 1,
                    j * (Len(arr) \div sections))]

\* np.array_split: the first len % sections pieces have one element more
array_split(arr, sections) ==
    LET each == Len(arr) \div sections
        extras == Len(arr) % sections
        first(j) == (j - 1) * each + Min2(j - 1, extras) + 1
        size(j) == each + (IF j <= extras THEN 1 ELSE 0)
    IN  [j \in 1..sections |-> SubSeq(arr, first(j), first(j) + size(j) - 1)]

RECURSIVE _generate_smaller_grid(_, _, _)
RECURSIVE GridPieces(_, _, _, _)

\* the loops of lines 65-66 and 68-69: the grid and the output of every piece
GridPieces(pieces, other, byLat, verbose) ==
    IF pieces = <<>> THEN <<>>
    ELSE <<IF byLat THEN _generate_smaller_grid(Head(pieces), other, verbose)
                    ELSE _generate_smaller_grid(other, Head(pieces), verbose)>>
         \o GridPieces(Tail(pieces), other, byLat, verbose)

\* the grid and what was printed
_generate_smaller_grid(lats, longs, verbose) ==
    LET mlat == Len(lats)
        mlong == Len(longs)
    IN  IF Max2(mlat, mlong) >= SplitThreshold
        THEN LET dfs == IF mlat > mlong
                        THEN GridPieces(array_split(lats, mlat \div SplitSize),
                                        longs, TRUE, verbose)
                        ELSE GridPieces(array_split(longs, mlong \div SplitSize),
                                        lats, FALSE, verbose)
             IN  [grid |-> Flatten([i \in 1..Len(dfs) |-> dfs[i].grid]),
                  out |-> Flatten([i \in 1..Len(dfs) |-> dfs[i].out])
                          \o (IF verbose THEN <<Line("collecting results")>> ELSE <<>>)]
        ELSE [grid |-> cartesian_product(lats, longs),
              out |-> IF verbose THEN <<Line(".")>> ELSE <<>>]

ValidAccuracies == {Pow10(x) : x \in 0..5}

\* a faulty validation: range(7), which also admits 1000000
CheckAccuracy_range7(accuracy_m) ==
    LET r == PyInt(accuracy_m)
    IN  IF r.ok /\ r.v \in {Pow10(x) : x \in 0..6} THEN Returned(r.v)
        ELSE Raised("ValueError")

\* lines 87-92: int(accuracy_m) is in (10**x for x in range(6)), and any
\* exception becomes a ValueError
CheckAccuracy(accuracy_m) ==
    LET r == PyInt(accuracy_m)
    IN  IF r.ok /\ r.v \in ValidAccuracies THEN Returned(r.v) ELSE Raised("ValueError")

\* np.arange(start, stop, step), in units of 1/100000 degree
arange(start, stop, step) ==
    [i \in 1..(IF stop > start THEN (stop - start + step - 1) \div step ELSE 0) |->
        start + (i - 1) * step]

SeqMin(s) == CHOOSE x \in Range(s) : \A y \in Range(s) : x <= y

SeqMax(s) == CHOOSE x \in Range(s) : \A y \in Range(s) : x >= y

\* lats and longs are (min, max) pairs in units of 1/100000 degree, so that
\* the step accuracy_m/100000 degree is accuracy_m units
generate_grid(lats, longs, accuracy_m, verbose) ==
    LET acc == CheckAccuracy(accuracy_m)
    IN  IF acc.kind = "raise" THEN [ret |-> acc, out |-> <<>>]
        ELSE LET steps == acc.value
                 g == _generate_smaller_grid(arange(SeqMin(lats), SeqMax(lats), steps),
                                             arange(SeqMin(longs), SeqMax(longs), steps),
                                             verbose)
             IN  [ret |-> Returned(g.grid),
                  out |-> <<Line("Generating point grid")>> \o g.out
                          \o <<[msg |-> "Grid of size generated", rows |-> Len(g.grid)]>>]

(***************************************************************************)
(* generate_key                                                            *)
(***************************************************************************)
KeyScale == 100000

RECURSIVE PyStr(_)
\* str() of an int, as its sequence of characters
PyStr(n) ==
    IF n < 0 THEN <<"-">> \o PyStr(0 - n)
    ELSE IF n < 10 THEN <<Digits[n + 1]>>
    ELSE PyStr(n \div 10) \o <<Digits[(n % 10) + 1]>>

\* int(5 - np.log10(accuracy_m)), for a power of ten
RoundLevel(accuracy_m) == 5 - (CHOOSE x \in 0..5 : Pow10(x) = accuracy_m)

\* (lat*100000).astype(int).astype(str) + ';' + (long*100000).astype(int).astype(str)
GeoKey(lat, long) ==
    PyStr(FTrunc(FMulNat(lat, KeyScale))) \o <<";">> \o PyStr(FTrunc(FMulNat(long, KeyScale)))

\* the frame with both columns rounded and the geokey column attached
generate_key(df, accuracy_m) ==
    [i \in 1..Len(df) |->
        LET lat == np_round(df[i].latitude, RoundLevel(accuracy_m))
            long == np_round(df[i].longitude, RoundLevel(accuracy_m))
        IN  [idx |-> df[i].idx, latitude |-> lat, longitude |-> long,
             geokey |-> GeoKey(lat, long)]]

(***************************************************************************)
(* generate_points_from_coordinates                                        *)
(***************************************************************************)
\* gpd.points_from_xy(longitude, latitude) on one chunk
WithGeometry(chunk) ==
    [i \in 1..Len(chunk) |->
        [idx |-> chunk[i].idx, latitude |-> chunk[i].latitude,
         longitude |-> chunk[i].longitude, geokey |-> chunk[i].geokey,
         geometry |-> <<chunk[i].longitude, chunk[i].latitude>>]]

\* pd.concat raises ValueError on an empty list of frames
pd_concat(dfs) ==
    IF dfs = <<>> THEN Raised("ValueError") ELSE Returned(Flatten(dfs))

generate_points_from_coordinates(df, chunksize) ==
    LET c == _check_chunksize(chunksize, Len(df))
    IN  IF c.kind = "raise" THEN [ret |-> c, out |-> <<Line("Generating the geometry points")>>]
        ELSE LET chunks == _chunker(df, PyIntV(c.value))
                 dfs == [j \in 1..Len(chunks) |-> WithGeometry(chunks[j])]
             IN  [ret |-> pd_concat(dfs),
                  out |-> <<Line("Generating the geometry points"), Line("selected chunksize")>>
                          \o [j \in 1..Len(chunks) |-> Line(".")]
                          \o <<Line("Done!")>>]

(***************************************************************************)
(* do_join and locate_points                                               *)
(***************************************************************************)
ManyPoints == 500000

ProgressEvery == 10

\* the predicate 'within' of the join: a polygon is the set of the point
\* geometries it contains
Within(point, polygon) == point.geometry \in polygon.region

RECURSIVE JoinRow(_, _, _)
\* the joined rows of one point: one row for every polygon that contains it
JoinRow(point, geometries, j) ==
    IF j > Len(geometries) THEN <<>>
    ELSE (IF Within(point, geometries[j])
          THEN <<[point |-> point, index_geometries |-> j,
                  WardID |-> geometries[j].WardID]>>
          ELSE <<>>)
         \o JoinRow(point, geometries, j + 1)

\* gpd.sjoin(points, geometries, how='inner', op='within')
do_join(points, geometries) ==
    Flatten([i \in 1..Len(points) |-> JoinRow(points[i], geometries, 1)])

RECURSIVE LocateLoop(_, _, _, _, _, _)
\* the loop of lines 137-144: the joins of the chunks and what was printed
LocateLoop(chunks, geometries, verbose, steps, n, total) ==
    IF steps >= Len(chunks) THEN [results |-> <<>>, out |-> <<>>]
    ELSE LET small_points == chunks[steps + 1]
             n1 == n + Len(small_points)
             rest == LocateLoop(chunks, geometries, verbose, steps + 1, n1, total)
         IN  [results |-> <<do_join(small_points, geometries)>> \o rest.results,
              out |-> (IF verbose THEN <<Line(".")>> ELSE <<>>)
                      \o (IF (steps + 1) % ProgressEvery = 0
                          THEN <<[msg |-> "processed", n |-> n1, of |-> total,
                                  percent |-> FloorDiv(n1 * 100, total)]>>
                          ELSE <<>>)
                      \o rest.out]

locate_points(points, geometries, chunksize, verbose) ==
    LET c == _check_chunksize(chunksize, Len(points))
        start == <<Line("Locating the points")>>
    IN  IF c.kind = "raise" THEN [ret |-> c, out |-> start]
        ELSE LET loop == LocateLoop(_chunker(points, PyIntV(c.value)), geometries,
                                    verbose, 0, 0, Len(points))
                 r == pd_concat(loop.results)
                 out1 == start
                         \o (IF Len(points) > ManyPoints THEN <<Line("There are many points")>>
                             ELSE <<>>)
                         \o loop.out \o <<Line("Combining results")>>
             IN  IF r.kind = "raise" THEN [ret |-> r, out |-> out1]
                 ELSE [ret |-> r,
                       out |-> out1 \o <<Line("Done!")>>
                               \o (IF verbose
                                   THEN <<[msg |-> "located", n |-> Len(r.value),
                                           of |-> Len(points)],
                                          [msg |-> "not found",
                                           n |-> Len(points) - Len(r.value)]>>
                                   ELSE <<>>)]

(***************************************************************************)
(* save_data.  A frame is the sequence of its columns, each a name and the *)
(* data it holds; the columns argument is None, a list, a tuple or a dict  *)
(* (the sequence of its key-value pairs).                                  *)
(***************************************************************************)
ColumnNames(df) == [i \in 1..Len(df) |-> df[i].name]

IsUnique(s) == \A i, j \in 1..Len(s) : s[i] = s[j] => i = j

\* bool(columns)
Truthy(columns) == columns.t # "NoneType" /\ columns.items # <<>>

DictKeys(columns) == [i \in 1..Len(columns.items) |-> columns.items[i][1]]

\* df[names]: the columns of these names, in the order of names
SelectColumns(df, names) ==
    IF \A i \in 1..Len(names) : names[i] \in Range(ColumnNames(df))
    THEN Returned(Flatten([i \in 1..Len(names) |->
                             SelectSeq(df, LAMBDA col : col.name = names[i])]))
    ELSE Raised("KeyError")

\* a faulty rename: the columns keep their names
RenameColumns_off(df, columns) == df

\* df.rename(columns=columns): a column whose name is a key takes the value
RenameColumns(df, columns) ==
    [i \in 1..Len(df) |->
        IF \E k \in 1..Len(columns.items) : columns.items[k][1] = df[i].name
        THEN [name |-> columns.items[CHOOSE k \in 1..Len(columns.items) :
                                        columns.items[k][1] = df[i].name][2],
              data |-> df[i].data]
        ELSE df[i]]

\* lines 163-170: the frame that is written
FilterColumns(df, columns) ==
    IF ~Truthy(columns) THEN Returned(df)
    ELSE IF columns.t = "dict"
    THEN LET sel == SelectColumns(df, DictKeys(columns))
         IN  IF sel.kind = "raise" THEN sel
             ELSE Returned(RenameColumns(sel.value, columns))
    ELSE IF columns.t = "list" THEN Returned(df)
    ELSE SelectColumns(df, columns.items)

\* the return value, the output and the directories and files afterwards
save_data(df, filename, directory, columns, ds, fs) ==
    LET f == FilterColumns(df, columns)
        path == <<directory, filename>>
        made == IF directory \in ds THEN Line("Directory already exists")
                ELSE Line("Directory created")
    IN  IF f.kind = "raise" THEN [ret |-> f, out |-> <<>>, dirs |-> ds, files |-> fs]
        ELSE IF ~IsUnique(ColumnNames(f.value))
        THEN \* to_json(orient='records') rejects duplicate column names
             [ret |-> Raised("ValueError"), out |-> <<made, Line("Writing file")>>,
              dirs |-> ds \cup {directory}, files |-> fs]
        ELSE [ret |-> f, out |-> <<made, Line("Writing file")>>,
              dirs |-> ds \cup {directory},
              files |-> [q \in (DOMAIN fs) \cup {path} |->
                            IF q = path THEN f.value ELSE fs[q]]]

(***************************************************************************)
(* process_dataframe and process_data                                      *)
(***************************************************************************)
\* the files process_data writes when it runs to its end
OutputFiles ==
    {<<"processed_data", "located_grid.json.gz">>,
     <<"processed_data", "located_geonames.json.gz">>,
     <<"processed_data", "located_postal_codes.json.gz">>,
     <<"datasets", "postal_codes.json.gz">>, <<"datasets", "provinces.json.gz">>,
     <<"datasets", "districts.json.gz">>, <<"datasets", "towns.json.gz">>,
     <<"datasets", "suburbs.json.gz">>, <<"datasets", "wards.json.gz">>,
     <<"datasets", "grid.json.gz">>}

\* lines 50-52: the data is loaded, the grid is generated (or accuracy_m is
\* rejected), and gh.check_grid, which geohelpers does not define, raises
\* AttributeError before any dataset is processed or any file is written
process_data(accuracy_m, verbose) ==
    LET loaded == <<Line("Reading geonames dataset"), Line("Reading postal codes"),
                    Line("Reading wards"), Line("All files read!")>>
        acc == CheckAccuracy(accuracy_m)
    IN  IF acc.kind = "raise" THEN [ret |-> acc, out |-> loaded]
        ELSE [ret |-> Raised("AttributeError"),
              out |-> loaded \o <<Line("Generating point grid"), Line("Grid of size generated")>>]

(***************************************************************************)
(* The arguments the functions are called with.                            *)
(***************************************************************************)
SeqsUpTo(S, n) == UNION {[1..k -> S] : k \in 0..n}

\* a chunksize as _chunker gets it: None or an int
ChunkInputs == {PyNone} \cup {PyIntV(k) : k \in (0 - MaxChunk)..MaxChunk}

\* what a caller may pass for a chunksize
ChunksizeValues ==
    ChunkInputs
    \cup {PyFloatV(25), PyStrV(<<"2">>), PyStrV(<<"a", "b", "c">>), PyStrV(<<>>),
          PyListV,
          PyIntV(MinDefaultChunk - 1), PyIntV(MaxDefaultChunk + 1)}

\* dataset sizes on both sides of the two clamps of the default
DfSizes ==
    {0, 1, ChunkDivisor * MinDefaultChunk - 1, ChunkDivisor * MinDefaultChunk,
     ChunkDivisor * (MinDefaultChunk + 1), ChunkDivisor * MaxDefaultChunk - 1,
     ChunkDivisor * MaxDefaultChunk, ChunkDivisor * (MaxDefaultChunk + 1),
     2 * ChunkDivisor * MaxDefaultChunk}

\* what a caller may pass for accuracy_m
AccuracyInputs ==
    {PyIntV(a) : a \in ValidAccuracies}
    \cup {PyIntV(0), PyIntV(5), PyIntV(0 - 10), PyIntV(11), PyIntV(10 * KeyScale),
          PyFloatV(105), PyFloatV(9), PyFloatV(10000), PyFloatV(19),
          PyStrV(<<"1", "0">>), PyStrV(<<"a", "b", "c">>), PyNone, PyListV}

\* the doubles nearest to n/100000
Coords == {FromRatio(FALSE, n, KeyScale) : n \in (MaxCoord - 2)..MaxCoord}

\* the lengths of the axes of a grid
AxisLens == (0..MaxShort) \cup ((SplitThreshold - 1)..(SplitThreshold + MaxOver))

\* a dataset of n rows, each with its index label
Frame(n) == [i \in 1..n |-> [idx |-> i]]

\* the points dataset with the given geometries
PointsFrame(locs) == [i \in 1..Len(locs) |-> [idx |-> i, geometry |-> locs[i]]]

\* the polygon dataset with the given regions
Polygons(regions) == [j \in 1..Len(regions) |-> [WardID |-> j, region |-> regions[j]]]

\* the point geometries of the points handed to locate_points; a polygon
\* contains any set of them
Locs == {"p", "q"}

\* the chunksizes locate_points is called with
LocateChunks == {PyNone, PyIntV(0), PyIntV(1), PyIntV(2), PyIntV(0 - 1)}

Names == <<"a", "b", "source_col1", "source_col2">>

\* the key-value pairs a dict of columns is made of
RenamePairs ==
    {<<"a", "source_col1">>, <<"b", "source_col2">>, <<"source_col1", "a">>,
     <<"source_col2", "b">>, <<"a", "a">>, <<"source_col1", "b">>}

\* the frame whose columns are the names of the set S, each holding the data
\* of its own name
NamedFrame(S) ==
    SelectSeq([i \in 1..Len(Names) |-> [name |-> Names[i], data |-> Names[i]]],
              LAMBDA col : col.name \in S)

ColumnsInputs ==
    {[t |-> "NoneType"]}
    \cup {[t |-> k, items |-> it] : k \in {"list", "tuple"},
                                   it \in SeqsUpTo(Range(Names), MaxMap)}
    \cup {[t |-> "dict", items |-> it] :
            it \in {x \in SeqsUpTo(RenamePairs, MaxMap) :
                      IsUnique([i \in 1..Len(x) |-> x[i][1]])}}

(***************************************************************************)
(* The state machine.                                                      *)
(***************************************************************************)
Init ==
    /\ call = "none"
    /\ args = <<>>
    /\ pc = "idle"
    /\ frame = <<>>
    /\ ret = <<>>
    /\ stdout = <<>>
    /\ dirs \in SUBSET {"processed_data"}
    /\ files = <<>>

Call_chunker ==
    /\ call = "none"
    /\ \E n \in 0..MaxRows, c \in ChunkInputs :
          /\ args' = [df |-> Frame(n), chunksize |-> c]
          /\ ret' = Returned(_chunker(Frame(n), c))
    /\ call' = "_chunker"
    /\ pc' = "_chunker.return"
    /\ UNCHANGED <<frame, stdout, dirs, files>>

Call_check_chunksize ==
    /\ call = "none"
    /\ \E c \in ChunksizeValues, n \in DfSizes :
          /\ args' = [chunksize |-> c, df_size |-> n]
          /\ ret' = _check_chunksize(c, n)
    /\ call' = "_check_chunksize"
    /\ pc' = "_check_chunksize.return"
    /\ UNCHANGED <<frame, stdout, dirs, files>>

Call_generate_key ==
    /\ call = "none"
    /\ \E lat1, long1, lat2, long2 \in Coords, a \in ValidAccuracies :
          LET df == <<[idx |-> 1, latitude |-> lat1, longitude |-> long1],
                      [idx |-> 2, latitude |-> lat2, longitude |-> long2]>>
          IN  /\ args' = [df |-> df, accuracy_m |-> a]
              /\ ret' = Returned(generate_key(df, a))
    /\ call' = "generate_key"
    /\ stdout' = <<Line("Generating the geokey")>>
    /\ pc' = "generate_key.return"
    /\ UNCHANGED <<frame, dirs, files>>

Call_generate_smaller_grid ==
    /\ call = "none"
    /\ \E mlat, mlong \in AxisLens, verbose \in BOOLEAN :
          /\ Min2(mlat, mlong) <= MaxShort
          /\ LET lats == arange(0, mlat, 1)
                 longs == arange(KeyScale, KeyScale + mlong, 1)
                 g == _generate_smaller_grid(lats, longs, verbose)
             IN  /\ args' = [lats |-> lats, longs |-> longs, verbose |-> verbose]
                 /\ ret' = Returned(g.grid)
                 /\ stdout' = g.out
    /\ call' = "_generate_smaller_grid"
    /\ pc' = "_generate_smaller_grid.return"
    /\ UNCHANGED <<frame, dirs, files>>

Call_generate_grid ==
    /\ call = "none"
    /\ \E a \in AccuracyInputs, lo, hi, top \in 0..MaxShort, verbose \in BOOLEAN :
          LET g == generate_grid(<<lo, hi>>, <<0, top>>, a, verbose)
          IN  /\ args' = [lats |-> <<lo, hi>>, longs |-> <<0, top>>,
                          accuracy_m |-> a, verbose |-> verbose]
              /\ ret' = g.ret
              /\ stdout' = g.out
    /\ call' = "generate_grid"
    /\ pc' = "generate_grid.return"
    /\ UNCHANGED <<frame, dirs, files>>

Call_locate_points ==
    /\ call = "none"
    /\ \E locs \in SeqsUpTo(Locs, MaxPoints),
          regions \in [1..2 -> SUBSET Locs],
          c \in LocateChunks, verbose \in BOOLEAN :
          LET r == locate_points(PointsFrame(locs), Polygons(regions), c, verbose)
          IN  /\ args' = [points |-> PointsFrame(locs),
                          geometries |-> Polygons(regions),
                          chunksize |-> c, verbose |-> verbose]
              /\ ret' = r.ret
              /\ stdout' = r.out
    /\ call' = "locate_points"
    /\ pc' = "locate_points.return"
    /\ UNCHANGED <<frame, dirs, files>>

Call_save_data ==
    /\ call = "none"
    /\ \E S \in SUBSET Range(Names), columns \in ColumnsInputs :
          LET r == save_data(NamedFrame(S), "filename.json.gz", "processed_data",
                             columns, dirs, files)
          IN  /\ args' = [df |-> NamedFrame(S), filename |-> "filename.json.gz",
                          directory |-> "processed_data", columns |-> columns]
              /\ ret' = r.ret
              /\ stdout' = r.out
              /\ dirs' = r.dirs
              /\ files' = r.files
    /\ call' = "save_data"
    /\ pc' = "save_data.return"
    /\ UNCHANGED frame

\* the point geometries of the rows of a frame once generate_key has rounded
\* them
RoundedGeoms(df, accuracy_m) ==
    {<<r.longitude, r.latitude>> : r \in Range(generate_key(df, accuracy_m))}

\* line 183: process_dataframe is called and fixes the chunksize
Call_process_dataframe ==
    /\ call = "none"
    /\ \E lats \in SeqsUpTo({FromRatio(FALSE, MaxCoord - 1, KeyScale),
                             FromRatio(FALSE, MaxCoord, KeyScale)}, MaxFrame),
          a \in {1, 1000}, c \in {PyNone, PyIntV(1)}, verbose \in BOOLEAN :
          LET df == [i \in 1..Len(lats) |->
                       [idx |-> i, latitude |-> lats[i],
                        longitude |-> FromRatio(FALSE, MaxCoord, KeyScale)]]
              size == _check_chunksize(c, Len(lats))
          IN  \E regions \in [1..2 -> SUBSET RoundedGeoms(df, a)] :
                /\ args' = [df |-> df, geometries |-> Polygons(regions),
                            accuracy_m |-> a, chunksize |-> c, verbose |-> verbose]
                /\ frame' = [df |-> df, chunksize |-> PyIntV(size.value)]
    /\ call' = "process_dataframe"
    /\ pc' = "generate_key"
    /\ UNCHANGED <<ret, stdout, dirs, files>>

\* line 184
PD_generate_key ==
    /\ call = "process_dataframe"
    /\ pc = "generate_key"
    /\ frame' = [frame EXCEPT !.df = generate_key(frame.df, args.accuracy_m)]
    /\ stdout' = stdout \o <<Line("Generating the geokey")>>
    /\ pc' = "generate_points_from_coordinates"
    /\ UNCHANGED <<call, args, ret, dirs, files>>

\* line 185
PD_generate_points ==
    /\ call = "process_dataframe"
    /\ pc = "generate_points_from_coordinates"
    /\ LET r == generate_points_from_coordinates(frame.df, frame.chunksize)
       IN  /\ stdout' = stdout \o r.out
           /\ IF r.ret.kind = "raise"
              THEN /\ ret' = r.ret
                   /\ pc' = "process_dataframe.return"
                   /\ UNCHANGED frame
              ELSE /\ frame' = [frame EXCEPT !.df = r.ret.value]
                   /\ pc' = "locate_points"
                   /\ UNCHANGED ret
    /\ UNCHANGED <<call, args, dirs, files>>

\* lines 186-187
PD_locate_points ==
    /\ call = "process_dataframe"
    /\ pc = "locate_points"
    /\ LET r == locate_points(frame.df, args.geometries, frame.chunksize, args.verbose)
       IN  /\ stdout' = stdout \o r.out
           /\ ret' = r.ret
    /\ pc' = "process_dataframe.return"
    /\ UNCHANGED <<call, args, frame, dirs, files>>

Call_process_data ==
    /\ call = "none"
    /\ \E a \in AccuracyInputs, verbose \in BOOLEAN :
          LET r == process_data(a, verbose)
          IN  /\ args' = [accuracy_m |-> a, verbose |-> verbose]
              /\ ret' = r.ret
              /\ stdout' = r.out
    /\ call' = "process_data"
    /\ pc' = "process_data.return"
    /\ UNCHANGED <<frame, dirs, files>>

Next ==
    \/ Call_chunker
    \/ Call_check_chunksize
    \/ Call_generate_key
    \/ Call_generate_smaller_grid
    \/ Call_generate_grid
    \/ Call_locate_points
    \/ Call_save_data
    \/ Call_process_dataframe
    \/ PD_generate_key
    \/ PD_generate_points
    \/ PD_locate_points
    \/ Call_process_data

Spec == Init /\ [][Next]_vars

(***************************************************************************)
(* Properties.                                                             *)
(***************************************************************************)
RECURSIVE SumLen(_)
SumLen(parts) == IF parts = <<>> THEN 0 ELSE Len(Head(parts)) + SumLen(Tail(parts))

\* C1: for a chunksize C > 0, the sizes of the partitions _chunker returns
\* sum to the number of rows, no partition has more than C rows, and the
\* partitions concatenated in order are the dataset in its original order.
C1_ChunkerPartitions ==
    (call = "_chunker" /\ args.chunksize.t = "int" /\ args.chunksize.v > 0) =>
        /\ SumLen(ret.value) = Len(args.df)
        /\ \A j \in 1..Len(ret.value) : Len(ret.value[j]) <= args.chunksize.v
        /\ Flatten(ret.value) = args.df

\* a dataset that is split into several partitions, the last one partial
C1_Witness ==
    /\ call = "_chunker"
    /\ args.chunksize.t = "int"
    /\ args.chunksize.v > 1
    /\ Len(ret.value) >= 2
    /\ Len(args.df) % args.chunksize.v # 0

\* the value is numerically one of 1, 10, ..., 100000
IsListedAccuracy(v) ==
    \/ v.t = "int" /\ v.v \in ValidAccuracies
    \/ v.t = "float" /\ \E a \in ValidAccuracies : v.v10 = 10 * a

\* the value converts, by int(), to one of 1, 10, ..., 100000
ConvertsToListedAccuracy(v) ==
    \/ v.t = "int" /\ v.v \in ValidAccuracies
    \/ v.t = "float" /\ \E a \in ValidAccuracies : 10 * a <= v.v10 /\ v.v10 < 10 * a + 10
    \/ v.t = "str" /\ \E a \in ValidAccuracies : v.chars = PyStr(a)

\* C2 as stated: generate_grid succeeds for every accuracy_m in
\* {1,10,100,1000,10000,100000} and fails with ValueError, before any grid is
\* built, for any other value.
C2_Original ==
    call = "generate_grid" =>
        IF IsListedAccuracy(args.accuracy_m) THEN ret.kind = "return"
        ELSE ret = Raised("ValueError") /\ stdout = <<>>

\* C2 amended: generate_grid succeeds for every accuracy_m that int()
\* converts to one of {1,10,100,1000,10000,100000}, and fails with
\* ValueError, before any grid is built, for every other value.
C2_Amended ==
    call = "generate_grid" =>
        IF ConvertsToListedAccuracy(args.accuracy_m)
        THEN /\ ret.kind = "return"
             /\ stdout # <<>>
        ELSE ret = Raised("ValueError") /\ stdout = <<>>

\* 10.5 is accepted as 10 and a grid is built
C2_Witness ==
    /\ call = "generate_grid"
    /\ args.accuracy_m = PyFloatV(105)
    /\ ret.kind = "return"

\* the rows of the cartesian product of two arrays
ProductRows(lats, longs) ==
    {[latitude |-> a, longitude |-> b] : a \in Range(lats), b \in Range(longs)}

Subdivided == Max2(Len(args.lats), Len(args.longs)) >= SplitThreshold

\* C3: with or without subdivision, the grid _generate_smaller_grid returns
\* holds every (latitude, longitude) pair of the cartesian product of the two
\* arrays exactly once and no other row, the latitude in column 'latitude'
\* and the longitude in column 'longitude'.
C3_GridIsProduct ==
    call = "_generate_smaller_grid" =>
        /\ Len(ret.value) = Len(args.lats) * Len(args.longs)
        /\ Range(ret.value) = ProductRows(args.lats, args.longs)

\* a subdivided grid with several latitudes and several longitudes
C3_Witness ==
    /\ call = "_generate_smaller_grid"
    /\ Subdivided
    /\ Len(args.lats) >= 2
    /\ Len(args.longs) >= 2
    /\ Len(ret.value) = Len(args.lats) * Len(args.longs)

\* the rows are in the order of nested iteration, latitude outside
LatitudeOuter(grid) ==
    \A r \in 1..(Len(grid) - 1) :
        \/ grid[r].latitude < grid[r + 1].latitude
        \/ /\ grid[r].latitude = grid[r + 1].latitude
           /\ grid[r].longitude < grid[r + 1].longitude

\* the rows are in the order of nested iteration, longitude outside
LongitudeOuter(grid) ==
    \A r \in 1..(Len(grid) - 1) :
        \/ grid[r].longitude < grid[r + 1].longitude
        \/ /\ grid[r].longitude = grid[r + 1].longitude
           /\ grid[r].latitude < grid[r + 1].latitude

IsMapping == call = "save_data" /\ args.columns.t = "dict" /\ args.columns.items # <<>>

\* the data of the column of this name
ColumnData(df, name) == (CHOOSE i \in 1..Len(df) : df[i].name = name)

Written == <<args.directory, args.filename>> \in DOMAIN files

\* C4 as stated: the mapping is from destination name (key) to source name
\* (value); the dataset written and returned has only the columns named by
\* the keys, each holding the data of the source column that is its value.
C4_Original ==
    (IsMapping /\ \A k \in 1..Len(args.columns.items) :
                     args.columns.items[k][2] \in Range(ColumnNames(args.df))) =>
        /\ ret.kind = "return"
        /\ Written
        /\ files[<<args.directory, args.filename>>] = ret.value
        /\ Len(ret.value) = Len(args.columns.items)
        /\ \A k \in 1..Len(args.columns.items) :
              /\ ret.value[k].name = args.columns.items[k][1]
              /\ ret.value[k].data =
                    args.df[ColumnData(args.df, args.columns.items[k][2])].data

\* C4 amended: the mapping is from source name (key) to destination name
\* (value); when the keys are columns of the dataset and the values are
\* distinct, the dataset written and returned has only the columns named by
\* the values, each holding the data of the source column that is its key.
C4_Amended ==
    (/\ IsMapping
     /\ \A k \in 1..Len(args.columns.items) :
           args.columns.items[k][1] \in Range(ColumnNames(args.df))
     /\ IsUnique([k \in 1..Len(args.columns.items) |-> args.columns.items[k][2]])) =>
        /\ ret.kind = "return"
        /\ Written
        /\ files[<<args.directory, args.filename>>] = ret.value
        /\ Len(ret.value) = Len(args.columns.items)
        /\ \A k \in 1..Len(args.columns.items) :
              /\ ret.value[k].name = args.columns.items[k][2]
              /\ ret.value[k].data =
                    args.df[ColumnData(args.df, args.columns.items[k][1])].data

\* two source columns of a dataset of four are kept and renamed
C4_Witness ==
    /\ IsMapping
    /\ args.columns.items = <<<<"source_col1", "a">>, <<"source_col2", "b">>>>
    /\ Len(args.df) = 4
    /\ ret.kind = "return"
    /\ ColumnNames(ret.value) = <<"a", "b">>
    /\ Written

\* the input points that no polygon contains
Unmatched ==
    {i \in 1..Len(args.points) :
        \A j \in 1..Len(args.geometries) : ~Within(args.points[i], args.geometries[j])}

\* C5: in verbose mode the unmatched count locate_points reports is the
\* number of input points that no polygon contains, and those points are not
\* in the located output.
C5_UnmatchedCount ==
    (call = "locate_points" /\ args.verbose /\ ret.kind = "return") =>
        /\ \E k \in 1..Len(stdout) :
              stdout[k] = [msg |-> "not found", n |-> Cardinality(Unmatched)]
        /\ \A r \in 1..Len(ret.value) : ret.value[r].point.idx \notin Unmatched

\* C6: a chunksize that is missing or does not convert to an integer is
\* replaced, without an error, by min(max(total_rows // 50, 5000), 60000),
\* which lies in [5000, 60000]; an int is returned unchanged.
C6_ChunksizeDefault ==
    call = "_check_chunksize" =>
        IF args.chunksize.t = "int" THEN ret = Returned(args.chunksize.v)
        ELSE ~PyInt(args.chunksize).ok =>
                /\ ret = Returned(Min2(Max2(args.df_size \div 50, 5000), 60000))
                /\ ret.value >= 5000
                /\ ret.value <= 60000

\* both coordinates of the two rows round to the same values
SameCell(r1, r2) == FEq(r1.latitude, r2.latitude) /\ FEq(r1.longitude, r2.longitude)

\* C7: for every accuracy_m of {1,10,100,1000,10000,100000}, two points get
\* equal geokeys if they lie in the same rounding cell and different geokeys
\* if they lie in different cells.
C7_KeysMatchCells ==
    call = "generate_key" =>
        (SameCell(ret.value[1], ret.value[2])
            <=> ret.value[1].geokey = ret.value[2].geokey)

\* C8: a run of process_data on valid inputs takes the three datasets through
\* key encoding, point construction and location, writes every output file
\* and ends by returning the three located datasets.
C8_PipelineCompletes ==
    (/\ call = "process_data"
     /\ pc = "process_data.return"
     /\ ConvertsToListedAccuracy(args.accuracy_m)) =>
        /\ ret.kind = "return"
        /\ OutputFiles \subseteq DOMAIN files

\* C10: the set of located records locate_points returns is, for every
\* chunksize, that of one containment join of all the points.
C10_ChunkIndependent ==
    call = "locate_points" =>
        /\ ret.kind = "return"
        /\ Range(ret.value) = Range(do_join(args.points, args.geometries))

====
